---- MODULE Spec2Model ----
(***************************************************************************)
(* The request-orchestration layer of the MCP gateway (services/mcp-server) *)
(* as a state machine: inbound calls to /mcp/health, /mcp/context/fetch,    *)
(* /mcp/memory/log and /mcp/task/submit, the two backend clients, the error *)
(* taxonomy and the metrics recorder.                                       *)
(*                                                                          *)
(* Rust values are modelled as follows.                                     *)
(*   Option<T>      None is <<>>, Some(x) is <<x>>                          *)
(*   String         the tuple of its pieces: <<"lit">> for "lit".to_string(), *)
(*                  the literal pieces and arguments for format!(...);      *)
(*                  identifiers and field values stay plain strings         *)
(*   serde Value    a record [t |-> tag, v |-> payload], see JNull .. JObj  *)
(*   Result<T, E>   [ok |-> TRUE, val |-> x] or [ok |-> FALSE, err |-> e]   *)
(***************************************************************************)
EXTENDS Integers, Sequences, FiniteSets, TLC

\* Number of inbound calls the server handles from their arrival to their
\* response.
MaxCalls == 1
\* Longest `results` list the memory backend answers with.
MaxResults == 1
\* The calls handled at the same time, where calls interleave.
MaxTasks == 2

CallIds == 1..MaxCalls

None == <<>>
Some(x) == <<x>>
IsSome(o) == o # <<>>
Unwrap(o) == o[1]
UnwrapOr(o, d) == IF o = <<>> THEN d ELSE o[1]

(***************************************************************************)
(* serde_json::Value                                                        *)
(***************************************************************************)
NoFields == [k \in {} |-> 0]
JNull == [t |-> "null", v |-> 0]
JStr(s) == [t |-> "str", v |-> s]
JNum(n) == [t |-> "num", v |-> n]
JArr(s) == [t |-> "arr", v |-> s]
JObj(f) == [t |-> "obj", v |-> f]

\* value[key]: Null unless value is an object that has the key.
JIndex(value, key) ==
    IF value.t = "obj" /\ key \in DOMAIN value.v THEN value.v[key] ELSE JNull
as_str(value) == IF value.t = "str" THEN Some(value.v) ELSE None
as_f64(value) == IF value.t = "num" THEN Some(value.v) ELSE None
as_array(value) == IF value.t = "arr" THEN Some(value.v) ELSE None

(***************************************************************************)
(* errors.rs: McpError                                                      *)
(***************************************************************************)
ErrorKinds ==
    {"ServiceUnavailable", "InvalidRequest", "Unauthorized", "NotFound", "InternalError"}

McpError(kind, msg) == [kind |-> kind, msg |-> msg]

\* impl fmt::Display for McpError
to_string(e) ==
    CASE e.kind = "ServiceUnavailable" -> <<"Service unavailable: ", e.msg>>
      [] e.kind = "InvalidRequest" -> <<"Invalid request: ", e.msg>>
      [] e.kind = "Unauthorized" -> <<"Unauthorized: ", e.msg>>
      [] e.kind = "NotFound" -> <<"Not found: ", e.msg>>
      [] e.kind = "InternalError" -> <<"Internal error: ", e.msg>>

\* A variant of status_code that answers NotFound with 400.
status_code_not_found_400(e) ==
    CASE e.kind = "ServiceUnavailable" -> 503
      [] e.kind = "InvalidRequest" -> 400
      [] e.kind = "Unauthorized" -> 401
      [] e.kind = "NotFound" -> 400
      [] e.kind = "InternalError" -> 500

\* ResponseError::status_code
status_code(e) ==
    CASE e.kind = "ServiceUnavailable" -> 503
      [] e.kind = "InvalidRequest" -> 400
      [] e.kind = "Unauthorized" -> 401
      [] e.kind = "NotFound" -> 404
      [] e.kind = "InternalError" -> 500

\* ResponseError::error_response
error_response(e) ==
    [http |-> status_code(e),
     content_type |-> "application/json",
     body |-> [error |-> to_string(e), status |-> status_code(e)]]

\* impl From<reqwest::Error> for McpError (what `?` applies to a failed send)
FromReqwestError(err) == McpError("ServiceUnavailable", <<err>>)

\* HttpResponse::Ok().json(value)
OkJson(value) == [http |-> 200, content_type |-> "application/json", body |-> value]

Ok(x) == [ok |-> TRUE, val |-> x]
Err(e) == [ok |-> FALSE, err |-> e]

(***************************************************************************)
(* The backends, seen from the gateway: what `send().await` and             *)
(* `response.json().await` can produce.                                     *)
(***************************************************************************)
\* Status codes a backend answers with: accepted ones, another 2xx, errors.
Statuses == {200, 201, 204, 404, 500, 503}
\* Status codes a backend's /health answers with.
ProbeStatuses == {200, 204, 503}

\* Outcome of `.send().await`: a reqwest::Error or a response with a status.
SendFailed == [t |-> "failed", err |-> "error sending request"]
Responded(status) == [t |-> "response", status |-> status]
SendOutcomes == {SendFailed} \cup {Responded(s) : s \in Statuses}
ProbeOutcomes == {SendFailed} \cup {Responded(s) : s \in ProbeStatuses}

\* The body of a response: lost in transit, not JSON, or a JSON value.
BodyLost == [t |-> "io_error"]
BodyGarbage == [t |-> "not_json"]
BodyJson(value) == [t |-> "json", v |-> value]

SeqsUpTo(S, n) == UNION {[1..k -> S] : k \in 0..n}

FullEntry ==
    JObj([id |-> JStr("m-1"), input_context |-> JStr("in"),
          output_response |-> JStr("out"), tier |-> JStr("stm"),
          confidence_score |-> JNum(1), created_at |-> JStr("t0")])
BareEntry == JObj(NoFields)
Entries == {FullEntry, BareEntry}

SearchBodies ==
    {BodyLost, BodyGarbage, BodyJson(JObj(NoFields)),
     BodyJson(JObj([results |-> JStr("none")]))}
    \cup {BodyJson(JObj([results |-> JArr(l)])) : l \in SeqsUpTo(Entries, MaxResults)}

StoreBodies ==
    {BodyLost, BodyGarbage, BodyJson(JObj([id |-> JStr("m-1")])),
     BodyJson(JObj(NoFields)), BodyJson(JObj([id |-> JNum(7)])), BodyJson(JArr(<<>>))}

ChatBodies ==
    {BodyLost, BodyGarbage,
     BodyJson(JObj([session_id |-> JStr("s-1"), response |-> JStr("done"),
                    tokens_used |-> JNum(12)])),
     BodyJson(JObj([session_id |-> JStr("s-1"), response |-> JStr("done")])),
     BodyJson(JObj([response |-> JStr("done")]))}

\* response.json::<Value>().await
ResponseJson(body) ==
    IF body.t = "json" THEN Ok(body.v)
    ELSE Err(IF body.t = "io_error" THEN "error decoding response body"
             ELSE "expected value at line 1 column 1")

\* reqwest StatusCode::is_success
is_success(status) == status >= 200 /\ status < 300

(***************************************************************************)
(* services.rs: MemoryServiceClient                                         *)
(***************************************************************************)
\* The request search_memories sends.
search_memories_request(user_id, query, limit) ==
    [backend |-> "memory", method |-> "POST", path |-> "/memory/search",
     x_user_id |-> Some(user_id),
     json |-> [query |-> query, limit |-> limit, tier |-> None]]

\* A variant of search_memories_status that passes a backend's 404 on as NotFound.
search_memories_status_not_found(sent) ==
    IF sent.t = "failed" THEN Some(Err(FromReqwestError(sent.err)))
    ELSE IF sent.status = 404
    THEN Some(Err(McpError("NotFound",
                           <<"Memory service returned status: ", ToString(sent.status)>>)))
    ELSE IF sent.status # 200
    THEN Some(Err(McpError("ServiceUnavailable",
                           <<"Memory service returned status: ", ToString(sent.status)>>)))
    ELSE None

\* A variant of search_memories_status that rejects only 4xx statuses.
search_memories_status_only_4xx(sent) ==
    IF sent.t = "failed" THEN Some(Err(FromReqwestError(sent.err)))
    ELSE IF sent.status >= 400 /\ sent.status < 500
    THEN Some(Err(McpError("ServiceUnavailable",
                           <<"Memory service returned status: ", ToString(sent.status)>>)))
    ELSE None

\* search_memories once `send().await` is over: None to go on to the body.
search_memories_status(sent) ==
    IF sent.t = "failed" THEN Some(Err(FromReqwestError(sent.err)))
    ELSE IF sent.status # 200
    THEN Some(Err(McpError("ServiceUnavailable",
                           <<"Memory service returned status: ", ToString(sent.status)>>)))
    ELSE None

\* The closure that maps one entry of `results` to a MemoryItem.
MemoryItem(m) ==
    [id |-> UnwrapOr(as_str(JIndex(m, "id")), ""),
     content |-> <<"Input: ", UnwrapOr(as_str(JIndex(m, "input_context")), ""),
                   "\nOutput: ", UnwrapOr(as_str(JIndex(m, "output_response")), "")>>,
     tier |-> UnwrapOr(as_str(JIndex(m, "tier")), "ltm"),
     confidence_score |-> UnwrapOr(as_f64(JIndex(m, "confidence_score")), 0),
     created_at |-> UnwrapOr(as_str(JIndex(m, "created_at")), "")]

\* A variant: a body without a `results` list counts as an empty list.
search_memories_body_missing_is_empty(body) ==
    LET parsed == ResponseJson(body) IN
    IF ~parsed.ok
    THEN Err(McpError("InternalError",
                      <<"Failed to parse memory response: ", parsed.err>>))
    ELSE LET results == as_array(JIndex(parsed.val, "results")) IN
         IF results = None
         THEN Ok(<<>>)
         ELSE Ok([i \in 1..Len(Unwrap(results)) |-> MemoryItem(Unwrap(results)[i])])
\* search_memories once `response.json().await` is over.
search_memories_body(body) ==
    LET parsed == ResponseJson(body) IN
    IF ~parsed.ok
    THEN Err(McpError("InternalError",
                      <<"Failed to parse memory response: ", parsed.err>>))
    ELSE LET results == as_array(JIndex(parsed.val, "results")) IN
         IF results = None
         THEN Err(McpError("InternalError", <<"Invalid memory response format">>))
         ELSE Ok([i \in 1..Len(Unwrap(results)) |-> MemoryItem(Unwrap(results)[i])])

\* The request store_memory sends.
store_memory_request(user_id, memory_type, input_context, output_response, outcome, tags) ==
    [backend |-> "memory", method |-> "POST", path |-> "/memory/store",
     x_user_id |-> Some(user_id),
     json |-> [type |-> memory_type, input_context |-> input_context,
               output_response |-> output_response, outcome |-> outcome,
               tier |-> "ltm", tags |-> tags]]

\* A variant of store_memory_status that accepts 200 only.
store_memory_status_only_200(sent) ==
    IF sent.t = "failed" THEN Some(Err(FromReqwestError(sent.err)))
    ELSE IF sent.status # 200
    THEN Some(Err(McpError("ServiceUnavailable",
                           <<"Memory service returned status: ", ToString(sent.status)>>)))
    ELSE None

\* store_memory once `send().await` is over: None to go on to the body.
store_memory_status(sent) ==
    IF sent.t = "failed" THEN Some(Err(FromReqwestError(sent.err)))
    ELSE IF sent.status # 200 /\ sent.status # 201
    THEN Some(Err(McpError("ServiceUnavailable",
                           <<"Memory service returned status: ", ToString(sent.status)>>)))
    ELSE None

\* store_memory once `response.json().await` is over.
store_memory_body(body) ==
    LET parsed == ResponseJson(body) IN
    IF ~parsed.ok
    THEN Err(McpError("InternalError",
                      <<"Failed to parse store response: ", parsed.err>>))
    ELSE Ok(UnwrapOr(as_str(JIndex(parsed.val, "id")), ""))

\* The request either client's health_check sends: a GET without identity.
health_check_request(backend) ==
    [backend |-> backend, method |-> "GET", path |-> "/health",
     x_user_id |-> None, json |-> None]

\* A variant of health_check that takes an unreachable backend for a healthy one.
health_check_unwrap_or_true(sent) ==
    IF sent.t = "failed" THEN TRUE ELSE is_success(sent.status)

\* health_check: map(|r| r.status().is_success()).unwrap_or(false)
health_check(sent) ==
    IF sent.t = "failed" THEN FALSE ELSE is_success(sent.status)

(***************************************************************************)
(* services.rs: IntelligenceServiceClient                                   *)
(***************************************************************************)
\* The request send_message sends.
send_message_request(user_id, message, session_id, use_memory) ==
    [backend |-> "intelligence", method |-> "POST", path |-> "/chat/message",
     x_user_id |-> Some(user_id),
     json |-> [message |-> message, session_id |-> session_id,
               use_memory |-> use_memory]]

\* send_message once `send().await` is over: None to go on to the body.
send_message_status(sent) ==
    IF sent.t = "failed" THEN Some(Err(FromReqwestError(sent.err)))
    ELSE IF sent.status # 200
    THEN Some(Err(McpError("ServiceUnavailable",
                           <<"Intelligence service returned status: ", ToString(sent.status)>>)))
    ELSE None

\* serde's derived Deserialize for ChatMessageResponse.
DeserializeChat(value) ==
    IF /\ value.t = "obj"
       /\ as_str(JIndex(value, "session_id")) # None
       /\ as_str(JIndex(value, "response")) # None
       /\ JIndex(value, "tokens_used").t \in {"null", "num"}
    THEN Ok([session_id |-> Unwrap(as_str(JIndex(value, "session_id"))),
             response |-> Unwrap(as_str(JIndex(value, "response"))),
             tokens_used |-> as_f64(JIndex(value, "tokens_used"))])
    ELSE Err("missing field")

\* A variant: the body's error goes through `?` and From<serde_json::Error>.
send_message_body_invalid_request(body) ==
    LET parsed == ResponseJson(body)
        typed == IF parsed.ok THEN DeserializeChat(parsed.val) ELSE parsed
    IN IF ~typed.ok
       THEN Err(McpError("InvalidRequest", <<typed.err>>))
       ELSE Ok(typed.val)
\* send_message once `response.json().await` is over.
send_message_body(body) ==
    LET parsed == ResponseJson(body)
        typed == IF parsed.ok THEN DeserializeChat(parsed.val) ELSE parsed
    IN IF ~typed.ok
       THEN Err(McpError("InternalError",
                         <<"Failed to parse intelligence response: ", typed.err>>))
       ELSE Ok(typed.val)

(***************************************************************************)
(* middleware.rs: extract_user_id                                           *)
(***************************************************************************)
\* A header value: visible ASCII (to_str succeeds) or arbitrary bytes.
HeaderText(text) == [visible |-> TRUE, text |-> text]
HeaderBytes == [visible |-> FALSE, text |-> "\\xff"]

\* HeaderValue::to_str
to_str(header_value) ==
    IF header_value.visible THEN Ok(header_value.text) ELSE Err("ToStrError")

\* A variant: the X-User-Id header is tried before the request's extensions.
extract_user_id_header_first(request) ==
    IF request.x_user_id # None /\ to_str(Unwrap(request.x_user_id)).ok
    THEN Some(to_str(Unwrap(request.x_user_id)).val)
    ELSE request.extensions
\* extract_user_id: the request's extensions, then the X-User-Id header; a
\* Bearer token in Authorization is logged and yields nothing.
extract_user_id(request) ==
    IF request.extensions # None THEN request.extensions
    ELSE IF request.x_user_id # None /\ to_str(Unwrap(request.x_user_id)).ok
    THEN Some(to_str(Unwrap(request.x_user_id)).val)
    ELSE None

(***************************************************************************)
(* Inbound requests                                                         *)
(***************************************************************************)
Operations == {"health", "fetch", "log", "submit"}

\* models.rs: the request bodies, once deserialized: each with its optional
\* fields all absent, and with all of them present.
ContextFetchRequests ==
    {[file_path |-> "a.py", file_content |-> None, language |-> None, limit |-> None],
     [file_path |-> "b.rs", file_content |-> Some("x = 1"), language |-> Some("rust"),
      limit |-> Some(2)]}
MemoryLogRequests ==
    {[file_path |-> "a.py", action |-> "save", content |-> None, outcome |-> None,
      metadata |-> None],
     [file_path |-> "b.rs", action |-> "edit", content |-> Some("x = 1"),
      outcome |-> Some("passed"), metadata |-> Some("{}")]}
TaskSubmitRequests ==
    {[task_description |-> "fix bug", file_context |-> None, session_id |-> None],
     [task_description |-> "fix bug", file_context |-> Some("def f(): pass"),
      session_id |-> Some("sess-1")]}

\* A body that web::Json<T> cannot deserialize into T.
Malformed == [t |-> "malformed"]
Payload(p) == [t |-> "json", v |-> p]

BodiesOf(op) ==
    CASE op = "health" -> {[t |-> "empty"]}
      [] op = "fetch" -> {Malformed} \cup {Payload(p) : p \in ContextFetchRequests}
      [] op = "log" -> {Malformed} \cup {Payload(p) : p \in MemoryLogRequests}
      [] op = "submit" -> {Malformed} \cup {Payload(p) : p \in TaskSubmitRequests}

Headers(extensions, x_user_id, authorization) ==
    [extensions |-> extensions, x_user_id |-> x_user_id, authorization |-> authorization]

\* What a caller sends as identity: nothing, only a bearer token, an
\* X-User-Id (with or without a token), an X-User-Id that is not text.
\* main.rs wraps only Logger and Cors: nothing puts an identity into the
\* request's extensions before a handler runs.
HeaderSets ==
    {Headers(None, None, None),
     Headers(None, None, Some(HeaderText("Bearer tok"))),
     Headers(None, Some(HeaderText("u1")), None),
     Headers(None, Some(HeaderText("u2")), Some(HeaderText("Bearer tok"))),
     Headers(None, Some(HeaderBytes), None)}

\* health_check takes neither the HttpRequest nor a body: its requests are
\* told apart by nothing the handler can see.
HeadersOf(op) == IF op = "health" THEN {Headers(None, None, None)} ELSE HeaderSets

Request(op, headers, body) ==
    [op |-> op, extensions |-> headers.extensions, x_user_id |-> headers.x_user_id,
     authorization |-> headers.authorization, body |-> body]

NoRequest == Request("health", Headers(None, None, None), [t |-> "empty"])

\* routes.rs: the `endpoint` label of each handler.
EndpointOf(op) ==
    CASE op = "health" -> "/mcp/health"
      [] op = "fetch" -> "/mcp/context/fetch"
      [] op = "log" -> "/mcp/memory/log"
      [] op = "submit" -> "/mcp/task/submit"

Endpoints == {EndpointOf(op) : op \in Operations}
Outcomes == {"success", "error"}

(***************************************************************************)
(* State                                                                    *)
(***************************************************************************)
VARIABLES
    pc,             \* where each call is
    req,            \* the inbound request of each call
    user_id,        \* the identity the handler resolved
    sent,           \* the outbound backend requests the call issued, in order
    replies,        \* what `send().await` returned for them, in order
    body_read,      \* the body `response.json().await` consumed, if it ran
    probes,         \* health_check: memory_ok, then intelligence_ok
    client_result,  \* what the backend client call returned to the handler
    ret,            \* what the handler returns
    obs_call,       \* the arguments of the observe_request call under way
    observed,       \* the observe_request calls the handler made, in order
    response,       \* the HTTP response sent to the caller
    MCP_REQUESTS_TOTAL,            \* counter per (endpoint, status)
    MCP_REQUEST_DURATION_SECONDS   \* number of samples per endpoint

callVars == <<pc, req, user_id, sent, replies, body_read, probes, client_result,
              ret, obs_call, observed, response>>
metricVars == <<MCP_REQUESTS_TOTAL, MCP_REQUEST_DURATION_SECONDS>>
vars == <<callVars, metricVars>>

Init ==
    /\ pc = [c \in CallIds |-> "idle"]
    /\ req = [c \in CallIds |-> NoRequest]
    /\ user_id = [c \in CallIds |-> None]
    /\ sent = [c \in CallIds |-> <<>>]
    /\ replies = [c \in CallIds |-> <<>>]
    /\ body_read = [c \in CallIds |-> None]
    /\ probes = [c \in CallIds |-> <<>>]
    /\ client_result = [c \in CallIds |-> None]
    /\ ret = [c \in CallIds |-> None]
    /\ obs_call = [c \in CallIds |-> None]
    /\ observed = [c \in CallIds |-> <<>>]
    /\ response = [c \in CallIds |-> None]
    /\ MCP_REQUESTS_TOTAL = [k \in Endpoints \X Outcomes |-> 0]
    /\ MCP_REQUEST_DURATION_SECONDS = [e \in Endpoints |-> 0]

(***************************************************************************)
(* metrics.rs: observe_request, in its two steps                            *)
(***************************************************************************)
Observation(endpoint, status) == [endpoint |-> endpoint, status |-> status]

\* A variant: the counter is stored from a read made before any other task
\* counted, so that a concurrent increment is lost.
observe_request_inc_stale(c) ==
    /\ pc[c] = "observe"
    /\ LET o == Unwrap(obs_call[c]) IN
       /\ MCP_REQUESTS_TOTAL' =
              [MCP_REQUESTS_TOTAL EXCEPT ![<<o.endpoint, o.status>>] = 0 + 1]
       /\ observed' = [observed EXCEPT ![c] = Append(@, o)]
    /\ pc' = [pc EXCEPT ![c] = "observe_duration"]
    /\ UNCHANGED <<req, user_id, sent, replies, body_read, probes, client_result,
                   ret, obs_call, response, MCP_REQUEST_DURATION_SECONDS>>
\* MCP_REQUESTS_TOTAL.with_label_values(&[endpoint, status]).inc()
observe_request_inc(c) ==
    /\ pc[c] = "observe"
    /\ LET o == Unwrap(obs_call[c]) IN
       /\ MCP_REQUESTS_TOTAL' =
              [MCP_REQUESTS_TOTAL EXCEPT ![<<o.endpoint, o.status>>] = @ + 1]
       /\ observed' = [observed EXCEPT ![c] = Append(@, o)]
    /\ pc' = [pc EXCEPT ![c] = "observe_duration"]
    /\ UNCHANGED <<req, user_id, sent, replies, body_read, probes, client_result,
                   ret, obs_call, response, MCP_REQUEST_DURATION_SECONDS>>

\* A variant: the duration is sampled twice.
observe_request_duration_twice(c) ==
    /\ pc[c] = "observe_duration"
    /\ MCP_REQUEST_DURATION_SECONDS' =
           [MCP_REQUEST_DURATION_SECONDS EXCEPT ![Unwrap(obs_call[c]).endpoint] = @ + 2]
    /\ obs_call' = [obs_call EXCEPT ![c] = None]
    /\ pc' = [pc EXCEPT ![c] = "respond"]
    /\ UNCHANGED <<req, user_id, sent, replies, body_read, probes, client_result,
                   ret, observed, response, MCP_REQUESTS_TOTAL>>
\* MCP_REQUEST_DURATION_SECONDS.with_label_values(&[endpoint]).observe(..)
observe_request_duration(c) ==
    /\ pc[c] = "observe_duration"
    /\ MCP_REQUEST_DURATION_SECONDS' =
           [MCP_REQUEST_DURATION_SECONDS EXCEPT ![Unwrap(obs_call[c]).endpoint] = @ + 1]
    /\ obs_call' = [obs_call EXCEPT ![c] = None]
    /\ pc' = [pc EXCEPT ![c] = "respond"]
    /\ UNCHANGED <<req, user_id, sent, replies, body_read, probes, client_result,
                   ret, observed, response, MCP_REQUESTS_TOTAL>>

(***************************************************************************)
(* The framework around the handlers                                        *)
(***************************************************************************)
\* A request arrives, at any time: each call runs as a task of its own. The
\* calls are numbered in the order of their arrival.
Receive(c) ==
    /\ pc[c] = "idle"
    /\ \A d \in CallIds : d < c => pc[d] # "idle"
    /\ \E op \in Operations :
           \E headers \in HeadersOf(op), body \in BodiesOf(op) :
               req' = [req EXCEPT ![c] = Request(op, headers, body)]
    /\ pc' = [pc EXCEPT ![c] = "received"]
    /\ UNCHANGED <<user_id, sent, replies, body_read, probes, client_result, ret,
                   obs_call, observed, response, metricVars>>

\* What actix-web answers when the web::Json<T> extractor of a handler fails:
\* JsonPayloadError's own response, without calling the handler.
JsonPayloadErrorResponse ==
    [http |-> 400, content_type |-> "text/plain; charset=utf-8",
     body |-> [text |-> <<"Json deserialize error">>]]

\* A variant: a request whose arguments were extracted is handed to no
\* handler and stays parked.
Dispatch_parks_request(c) ==
    /\ pc[c] = "received"
    /\ IF req[c].body = Malformed
       THEN /\ response' = [response EXCEPT ![c] = Some(JsonPayloadErrorResponse)]
            /\ pc' = [pc EXCEPT ![c] = "done"]
       ELSE /\ pc' = [pc EXCEPT ![c] = "parked"]
            /\ UNCHANGED response
    /\ UNCHANGED <<req, user_id, sent, replies, body_read, probes, client_result,
                   ret, obs_call, observed, metricVars>>
\* The handler's arguments are extracted; the handler runs if all succeed.
\* health_check takes no body; the other three take web::Json<T>.
Dispatch(c) ==
    /\ pc[c] = "received"
    /\ IF req[c].body = Malformed
       THEN /\ response' = [response EXCEPT ![c] = Some(JsonPayloadErrorResponse)]
            /\ pc' = [pc EXCEPT ![c] = "done"]
       ELSE /\ pc' = [pc EXCEPT ![c] = "handler"]
            /\ UNCHANGED response
    /\ UNCHANGED <<req, user_id, sent, replies, body_read, probes, client_result,
                   ret, obs_call, observed, metricVars>>

\* The handler returned: Ok(response) is sent as is, Err(e) as e.error_response().
Respond(c) ==
    /\ pc[c] = "respond"
    /\ response' = [response EXCEPT ![c] =
           Some(IF Unwrap(ret[c]).ok THEN Unwrap(ret[c]).val
                ELSE error_response(Unwrap(ret[c]).err))]
    /\ pc' = [pc EXCEPT ![c] = "done"]
    /\ UNCHANGED <<req, user_id, sent, replies, body_read, probes, client_result,
                   ret, obs_call, observed, metricVars>>

\* A handler reaches its return: `out.obs` is the observe_request call it
\* makes on the way (None if it makes none), `out.ret` the value it returns.
Return(c, out) ==
    /\ ret' = [ret EXCEPT ![c] = Some(out.ret)]
    /\ obs_call' = [obs_call EXCEPT ![c] = out.obs]
    /\ pc' = [pc EXCEPT ![c] = IF out.obs = None THEN "respond" ELSE "observe"]

(***************************************************************************)
(* routes.rs: health_check                                                  *)
(***************************************************************************)
\* A variant of HealthResponse that is healthy as soon as one probe is.
HealthResponse_either(memory_ok, intelligence_ok) ==
    [status |-> IF memory_ok \/ intelligence_ok THEN "healthy" ELSE "degraded",
     version |-> "CARGO_PKG_VERSION",
     memory_service |-> memory_ok,
     intelligence_service |-> intelligence_ok]

\* models.rs HealthResponse, as health_check fills it.
HealthResponse(memory_ok, intelligence_ok) ==
    [status |-> IF memory_ok /\ intelligence_ok THEN "healthy" ELSE "degraded",
     version |-> "CARGO_PKG_VERSION",
     memory_service |-> memory_ok,
     intelligence_service |-> intelligence_ok]

\* The end of health_check, both probes known.
health_check_finish(memory_ok, intelligence_ok) ==
    [obs |-> Some(Observation("/mcp/health", "success")),
     ret |-> Ok(OkJson(HealthResponse(memory_ok, intelligence_ok)))]

\* Up to `memory_client.health_check().await`.
health_check_start(c) ==
    /\ pc[c] = "handler" /\ req[c].op = "health"
    /\ sent' = [sent EXCEPT ![c] = Append(@, health_check_request("memory"))]
    /\ pc' = [pc EXCEPT ![c] = "memory_probe"]
    /\ UNCHANGED <<req, user_id, replies, body_read, probes, client_result, ret,
                   obs_call, observed, response, metricVars>>

\* The memory probe is over; up to `intelligence_client.health_check().await`.
health_check_memory(c) ==
    /\ pc[c] = "memory_probe"
    /\ \E o \in ProbeOutcomes :
           /\ replies' = [replies EXCEPT ![c] = Append(@, o)]
           /\ probes' = [probes EXCEPT ![c] = Append(@, health_check(o))]
    /\ sent' = [sent EXCEPT ![c] = Append(@, health_check_request("intelligence"))]
    /\ pc' = [pc EXCEPT ![c] = "intelligence_probe"]
    /\ UNCHANGED <<req, user_id, body_read, client_result, ret, obs_call, observed,
                   response, metricVars>>

\* The intelligence probe is over; the rest of health_check.
health_check_intelligence(c) ==
    /\ pc[c] = "intelligence_probe"
    /\ \E o \in ProbeOutcomes :
           /\ replies' = [replies EXCEPT ![c] = Append(@, o)]
           /\ probes' = [probes EXCEPT ![c] = Append(@, health_check(o))]
           /\ Return(c, health_check_finish(probes[c][1], health_check(o)))
    /\ UNCHANGED <<req, user_id, sent, body_read, client_result, observed, response,
                   metricVars>>

(***************************************************************************)
(* routes.rs: fetch_context                                                  *)
(***************************************************************************)
\* The None arm of `match extract_user_id(&req)`.
fetch_context_unauthorized ==
    [obs |-> Some(Observation("/mcp/context/fetch", "error")),
     ret |-> Err(McpError("Unauthorized", <<"User ID not found in request">>))]

\* `query`: the file path, followed by the content when there is one.
fetch_context_query(request) ==
    IF request.file_content # None
    THEN <<request.file_path, " ", Unwrap(request.file_content)>>
    ELSE <<request.file_path>>

\* `context_summary`
fetch_context_summary(request, memories) ==
    IF Len(memories) = 0 THEN <<"No relevant context found.">>
    ELSE <<"Found ", ToString(Len(memories)), " relevant memory items related to ",
           request.file_path>>

\* A variant of fetch_context_finish that observes "success" on both arms.
fetch_context_finish_always_success(request, result) ==
    IF ~result.ok
    THEN [obs |-> Some(Observation("/mcp/context/fetch", "success")),
          ret |-> Err(result.err)]
    ELSE [obs |-> Some(Observation("/mcp/context/fetch", "success")),
          ret |-> Ok(OkJson([memories |-> result.val,
                            context_summary |-> fetch_context_summary(request, result.val)]))]

\* The match on the client's result, and the rest of fetch_context.
fetch_context_finish(request, result) ==
    IF ~result.ok
    THEN [obs |-> Some(Observation("/mcp/context/fetch", "error")), ret |-> Err(result.err)]
    ELSE [obs |-> Some(Observation("/mcp/context/fetch", "success")),
          ret |-> Ok(OkJson([memories |-> result.val,
                            context_summary |-> fetch_context_summary(request, result.val)]))]

\* A variant: the request goes out with the identity of the first call in
\* flight, as if the client kept the identity it was last given.
fetch_context_start_kept_identity(c) ==
    /\ pc[c] = "handler" /\ req[c].op = "fetch"
    /\ LET id == extract_user_id(req[c])
           kept == extract_user_id(req[CHOOSE d \in DOMAIN req : \A e \in DOMAIN req : d <= e])
           request == req[c].body.v
       IN IF id = None
          THEN /\ Return(c, fetch_context_unauthorized)
               /\ UNCHANGED <<user_id, sent>>
          ELSE /\ user_id' = [user_id EXCEPT ![c] = id]
               /\ sent' = [sent EXCEPT ![c] = Append(@, search_memories_request(
                               Unwrap(IF kept = None THEN id ELSE kept),
                               fetch_context_query(request), Some(UnwrapOr(request.limit, 5))))]
               /\ pc' = [pc EXCEPT ![c] = "send"]
               /\ UNCHANGED <<ret, obs_call>>
    /\ UNCHANGED <<req, replies, body_read, probes, client_result, observed,
                   response, metricVars>>
\* Up to `.send().await` in search_memories, or to the return for want of identity.
fetch_context_start(c) ==
    /\ pc[c] = "handler" /\ req[c].op = "fetch"
    /\ LET id == extract_user_id(req[c])
           request == req[c].body.v
       IN IF id = None
          THEN /\ Return(c, fetch_context_unauthorized)
               /\ UNCHANGED <<user_id, sent>>
          ELSE /\ user_id' = [user_id EXCEPT ![c] = id]
               /\ sent' = [sent EXCEPT ![c] = Append(@, search_memories_request(Unwrap(id), fetch_context_query(request),
                                                Some(UnwrapOr(request.limit, 5))))]
               /\ pc' = [pc EXCEPT ![c] = "send"]
               /\ UNCHANGED <<ret, obs_call>>
    /\ UNCHANGED <<req, replies, body_read, probes, client_result, observed,
                   response, metricVars>>

\* A variant: a request that could not be sent is sent once more.
fetch_context_sent_retry(c) ==
    /\ pc[c] = "send" /\ req[c].op = "fetch"
    /\ \E o \in SendOutcomes :
           /\ replies' = [replies EXCEPT ![c] = Append(@, o)]
           /\ LET early == search_memories_status(o) IN
              IF o = SendFailed /\ Len(sent[c]) < 2
              THEN /\ sent' = [sent EXCEPT ![c] = Append(@, sent[c][1])]
                   /\ UNCHANGED <<pc, client_result, ret, obs_call>>
              ELSE IF early # None
              THEN /\ client_result' = [client_result EXCEPT ![c] = early]
                   /\ Return(c, fetch_context_finish(req[c].body.v, Unwrap(early)))
                   /\ UNCHANGED sent
              ELSE /\ pc' = [pc EXCEPT ![c] = "body"]
                   /\ UNCHANGED <<sent, client_result, ret, obs_call>>
    /\ UNCHANGED <<req, user_id, body_read, probes, observed, response,
                   metricVars>>
\* `.send().await` is over: the status check of search_memories.
fetch_context_sent(c) ==
    /\ pc[c] = "send" /\ req[c].op = "fetch"
    /\ \E o \in SendOutcomes :
           /\ replies' = [replies EXCEPT ![c] = Append(@, o)]
           /\ LET early == search_memories_status(o) IN
              IF early # None
              THEN /\ client_result' = [client_result EXCEPT ![c] = early]
                   /\ Return(c, fetch_context_finish(req[c].body.v, Unwrap(early)))
              ELSE /\ pc' = [pc EXCEPT ![c] = "body"]
                   /\ UNCHANGED <<client_result, ret, obs_call>>
    /\ UNCHANGED <<req, user_id, sent, body_read, probes, observed, response,
                   metricVars>>

\* `response.json().await` is over: the rest of search_memories and of fetch_context.
fetch_context_body(c) ==
    /\ pc[c] = "body" /\ req[c].op = "fetch"
    /\ \E b \in SearchBodies :
           /\ body_read' = [body_read EXCEPT ![c] = Some(b)]
           /\ client_result' = [client_result EXCEPT ![c] = Some(search_memories_body(b))]
           /\ Return(c, fetch_context_finish(req[c].body.v, search_memories_body(b)))
    /\ UNCHANGED <<req, user_id, sent, replies, probes, observed, response,
                   metricVars>>

(***************************************************************************)
(* routes.rs: log_memory                                                  *)
(***************************************************************************)
\* The None arm of `match extract_user_id(&req)`.
log_memory_unauthorized ==
    [obs |-> Some(Observation("/mcp/memory/log", "error")),
     ret |-> Err(McpError("Unauthorized", <<"User ID not found in request">>))]

\* `input_context`
log_memory_input_context(request) ==
    <<"File: ", request.file_path, "\nAction: ", request.action, "\n",
      UnwrapOr(request.content, "")>>

\* A variant: the action goes last in the tag list.
log_memory_tags_action_last(request) == Some(<<"vscode", "mcp", request.action>>)
\* `tags`
log_memory_tags(request) == Some(<<request.action, "vscode", "mcp">>)

\* The match on the client's result, and the rest of log_memory.
log_memory_finish(request, result) ==
    IF ~result.ok
    THEN [obs |-> Some(Observation("/mcp/memory/log", "error")), ret |-> Err(result.err)]
    ELSE [obs |-> Some(Observation("/mcp/memory/log", "success")),
          ret |-> Ok(OkJson([memory_id |-> result.val, stored |-> TRUE,
                            message |-> <<"Memory ", result.val, " stored successfully">>]))]

\* Up to `.send().await` in store_memory, or to the return for want of identity.
log_memory_start(c) ==
    /\ pc[c] = "handler" /\ req[c].op = "log"
    /\ LET id == extract_user_id(req[c])
           request == req[c].body.v
       IN IF id = None
          THEN /\ Return(c, log_memory_unauthorized)
               /\ UNCHANGED <<user_id, sent>>
          ELSE /\ user_id' = [user_id EXCEPT ![c] = id]
               /\ sent' = [sent EXCEPT ![c] = Append(@, store_memory_request(Unwrap(id), "code_interaction",
                                                log_memory_input_context(request),
                                                request.outcome, request.outcome,
                                                log_memory_tags(request)))]
               /\ pc' = [pc EXCEPT ![c] = "send"]
               /\ UNCHANGED <<ret, obs_call>>
    /\ UNCHANGED <<req, replies, body_read, probes, client_result, observed,
                   response, metricVars>>

\* `.send().await` is over: the status check of store_memory.
log_memory_sent(c) ==
    /\ pc[c] = "send" /\ req[c].op = "log"
    /\ \E o \in SendOutcomes :
           /\ replies' = [replies EXCEPT ![c] = Append(@, o)]
           /\ LET early == store_memory_status(o) IN
              IF early # None
              THEN /\ client_result' = [client_result EXCEPT ![c] = early]
                   /\ Return(c, log_memory_finish(req[c].body.v, Unwrap(early)))
              ELSE /\ pc' = [pc EXCEPT ![c] = "body"]
                   /\ UNCHANGED <<client_result, ret, obs_call>>
    /\ UNCHANGED <<req, user_id, sent, body_read, probes, observed, response,
                   metricVars>>

\* `response.json().await` is over: the rest of store_memory and of log_memory.
log_memory_body(c) ==
    /\ pc[c] = "body" /\ req[c].op = "log"
    /\ \E b \in StoreBodies :
           /\ body_read' = [body_read EXCEPT ![c] = Some(b)]
           /\ client_result' = [client_result EXCEPT ![c] = Some(store_memory_body(b))]
           /\ Return(c, log_memory_finish(req[c].body.v, store_memory_body(b)))
    /\ UNCHANGED <<req, user_id, sent, replies, probes, observed, response,
                   metricVars>>

(***************************************************************************)
(* routes.rs: submit_task                                                  *)
(***************************************************************************)
\* The None arm of `match extract_user_id(&req)`.
submit_task_unauthorized ==
    [obs |-> Some(Observation("/mcp/task/submit", "error")),
     ret |-> Err(McpError("Unauthorized", <<"User ID not found in request">>))]

\* `message`: the task, after the file context when there is one.
submit_task_message(request) ==
    IF request.file_context # None
    THEN <<"File Context:\n", Unwrap(request.file_context), "\n\nTask: ",
           request.task_description>>
    ELSE <<request.task_description>>

\* A variant: a backend error is wrapped into an InternalError.
submit_task_finish_wraps_error(request, result) ==
    IF ~result.ok
    THEN [obs |-> Some(Observation("/mcp/task/submit", "error")),
          ret |-> Err(McpError("InternalError", to_string(result.err)))]
    ELSE [obs |-> Some(Observation("/mcp/task/submit", "success")),
          ret |-> Ok(OkJson([session_id |-> result.val.session_id,
                            response |-> result.val.response,
                            tokens_used |-> result.val.tokens_used]))]
\* The match on the client's result, and the rest of submit_task.
submit_task_finish(request, result) ==
    IF ~result.ok
    THEN [obs |-> Some(Observation("/mcp/task/submit", "error")), ret |-> Err(result.err)]
    ELSE [obs |-> Some(Observation("/mcp/task/submit", "success")),
          ret |-> Ok(OkJson([session_id |-> result.val.session_id,
                            response |-> result.val.response,
                            tokens_used |-> result.val.tokens_used]))]

\* A variant: the task's context is first searched in the memory backend.
submit_task_start_searches_memory(c) ==
    /\ pc[c] = "handler" /\ req[c].op = "submit"
    /\ LET id == extract_user_id(req[c])
           request == req[c].body.v
       IN IF id = None
          THEN /\ Return(c, submit_task_unauthorized)
               /\ UNCHANGED <<user_id, sent>>
          ELSE /\ user_id' = [user_id EXCEPT ![c] = id]
               /\ sent' = [sent EXCEPT ![c] =
                      <<search_memories_request(Unwrap(id), submit_task_message(request), Some(5)),
                        send_message_request(Unwrap(id), submit_task_message(request),
                                             request.session_id, TRUE)>>]
               /\ pc' = [pc EXCEPT ![c] = "send"]
               /\ UNCHANGED <<ret, obs_call>>
    /\ UNCHANGED <<req, replies, body_read, probes, client_result, observed,
                   response, metricVars>>
\* Up to `.send().await` in send_message, or to the return for want of identity.
submit_task_start(c) ==
    /\ pc[c] = "handler" /\ req[c].op = "submit"
    /\ LET id == extract_user_id(req[c])
           request == req[c].body.v
       IN IF id = None
          THEN /\ Return(c, submit_task_unauthorized)
               /\ UNCHANGED <<user_id, sent>>
          ELSE /\ user_id' = [user_id EXCEPT ![c] = id]
               /\ sent' = [sent EXCEPT ![c] = Append(@, send_message_request(Unwrap(id), submit_task_message(request),
                                                request.session_id, TRUE))]
               /\ pc' = [pc EXCEPT ![c] = "send"]
               /\ UNCHANGED <<ret, obs_call>>
    /\ UNCHANGED <<req, replies, body_read, probes, client_result, observed,
                   response, metricVars>>

\* `.send().await` is over: the status check of send_message.
submit_task_sent(c) ==
    /\ pc[c] = "send" /\ req[c].op = "submit"
    /\ \E o \in SendOutcomes :
           /\ replies' = [replies EXCEPT ![c] = Append(@, o)]
           /\ LET early == send_message_status(o) IN
              IF early # None
              THEN /\ client_result' = [client_result EXCEPT ![c] = early]
                   /\ Return(c, submit_task_finish(req[c].body.v, Unwrap(early)))
              ELSE /\ pc' = [pc EXCEPT ![c] = "body"]
                   /\ UNCHANGED <<client_result, ret, obs_call>>
    /\ UNCHANGED <<req, user_id, sent, body_read, probes, observed, response,
                   metricVars>>

\* `response.json().await` is over: the rest of send_message and of submit_task.
submit_task_body(c) ==
    /\ pc[c] = "body" /\ req[c].op = "submit"
    /\ \E b \in ChatBodies :
           /\ body_read' = [body_read EXCEPT ![c] = Some(b)]
           /\ client_result' = [client_result EXCEPT ![c] = Some(send_message_body(b))]
           /\ Return(c, submit_task_finish(req[c].body.v, send_message_body(b)))
    /\ UNCHANGED <<req, user_id, sent, replies, probes, observed, response,
                   metricVars>>

(***************************************************************************)
(* Specification: MaxCalls calls, handled concurrently.                     *)
(***************************************************************************)
Next ==
    \E c \in CallIds :
        \/ Receive(c)
        \/ Dispatch(c)
        \/ health_check_start(c)
        \/ health_check_memory(c)
        \/ health_check_intelligence(c)
        \/ fetch_context_start(c)
        \/ fetch_context_sent(c)
        \/ fetch_context_body(c)
        \/ log_memory_start(c)
        \/ log_memory_sent(c)
        \/ log_memory_body(c)
        \/ submit_task_start(c)
        \/ submit_task_sent(c)
        \/ submit_task_body(c)
        \/ observe_request_inc(c)
        \/ observe_request_duration(c)
        \/ Respond(c)

Spec == Init /\ [][Next]_vars

(***************************************************************************)
(* Specification of the rendering of errors alone: every McpError, of any   *)
(* kind and with any of the details below, is returned by a handler and     *)
(* sent to the caller.                                                      *)
(***************************************************************************)
\* The details the code gives its errors, and the empty one.
ErrorDetails ==
    {<<"">>, <<"User ID not found in request">>, <<"Invalid memory response format">>,
     <<SendFailed.err>>}
    \cup {<<"Memory service returned status: ", ToString(s)>> : s \in Statuses}
    \cup {<<"Intelligence service returned status: ", ToString(s)>> : s \in Statuses}
    \cup {<<"Failed to parse memory response: ", ResponseJson(b).err>> :
              b \in {BodyLost, BodyGarbage}}
AllErrors == {McpError(kind, msg) : kind \in ErrorKinds, msg \in ErrorDetails}

InitErrors ==
    /\ pc = [c \in CallIds |-> "respond"]
    /\ req = [c \in CallIds |-> NoRequest]
    /\ user_id = [c \in CallIds |-> None]
    /\ sent = [c \in CallIds |-> <<>>]
    /\ replies = [c \in CallIds |-> <<>>]
    /\ body_read = [c \in CallIds |-> None]
    /\ probes = [c \in CallIds |-> <<>>]
    /\ client_result = [c \in CallIds |-> None]
    /\ ret \in [CallIds -> {Some(Err(e)) : e \in AllErrors}]
    /\ obs_call = [c \in CallIds |-> None]
    /\ observed = [c \in CallIds |-> <<>>]
    /\ response = [c \in CallIds |-> None]
    /\ MCP_REQUESTS_TOTAL = [k \in Endpoints \X Outcomes |-> 0]
    /\ MCP_REQUEST_DURATION_SECONDS = [e \in Endpoints |-> 0]

NextErrors == \E c \in CallIds : Respond(c)

SpecErrors == InitErrors /\ [][NextErrors]_vars

(***************************************************************************)
(* Vocabulary of the properties                                             *)
(***************************************************************************)
IdentityOps == {"fetch", "log", "submit"}
Started(c) == pc[c] # "idle"
Done(c) == pc[c] = "done"
\* The call has no identity source: nothing in the request context, no header.
NoIdentitySource(c) == req[c].extensions = None /\ req[c].x_user_id = None
\* The backend answered the call's request with this status.
Answered(c) == replies[c] # <<>> /\ replies[c][Len(replies[c])].t = "response"
StatusOf(c) == replies[c][Len(replies[c])].status
ClientFailedAs(c, kind) ==
    /\ client_result[c] # None
    /\ ~Unwrap(client_result[c]).ok
    /\ Unwrap(client_result[c]).err.kind = kind
\* The response is a GatewayError in the {error, status} shape.
IsGatewayError(r) ==
    /\ r.content_type = "application/json"
    /\ DOMAIN r.body = {"error", "status"}
    /\ r.body.status = r.http
EndsIn(c, http) == Done(c) /\ response[c] # None /\ Unwrap(response[c]).http = http

(***************************************************************************)
(* Properties                                                               *)
(***************************************************************************)

\* C1: a call to context-fetch, memory-log or task-submit that carries no
\* identity source issues no backend request at any point, and ends with
\* exactly Unauthorized / 401.
C1_NoIdentityIsUnauthorized ==
    \A c \in CallIds :
        (Started(c) /\ req[c].op \in IdentityOps /\ NoIdentitySource(c)) =>
            /\ sent[c] = <<>>
            /\ Done(c) =>
                   /\ ret[c] # None
                   /\ ~Unwrap(ret[c]).ok
                   /\ Unwrap(ret[c]).err.kind = "Unauthorized"
                   /\ Unwrap(response[c]).http = 401

\* C2: every call that has been answered made exactly one observe_request
\* call, for its own endpoint, whichever way it ended.
C2_ExactlyOneObservation ==
    \A c \in CallIds :
        Done(c) =>
            /\ Len(observed[c]) = 1
            /\ observed[c][1].endpoint = EndpointOf(req[c].op)

\* C3: Health answers "healthy" if and only if the memory probe and the
\* intelligence probe both returned true, and "degraded" otherwise.
C3_HealthyIffBothProbes ==
    \A c \in CallIds :
        (req[c].op = "health" /\ response[c] # None) =>
            LET status == Unwrap(response[c]).body.status IN
            /\ status \in {"healthy", "degraded"}
            /\ status = "healthy" <=> (probes[c][1] /\ probes[c][2])
            /\ Unwrap(response[c]).body.memory_service = probes[c][1]
            /\ Unwrap(response[c]).body.intelligence_service = probes[c][2]

\* C3 happens: a Health call answered "degraded" with exactly one probe true.
C3_Witness ==
    \E c \in CallIds :
        /\ req[c].op = "health" /\ Done(c)
        /\ probes[c] = <<TRUE, FALSE>>
        /\ Unwrap(response[c]).body.status = "degraded"

\* C4: Health never ends in a GatewayError: each probe is true exactly when
\* the backend answered with a 2xx status, false on any other status and on
\* a transport failure, and the handler returns a success response.
C4_HealthNeverFails ==
    \A c \in CallIds :
        (Started(c) /\ req[c].op = "health") =>
            /\ Len(probes[c]) = Len(replies[c])
            /\ \A i \in 1..Len(probes[c]) :
                   probes[c][i] = (/\ replies[c][i].t = "response"
                                   /\ replies[c][i].status \in 200..299)
            /\ ret[c] # None => Unwrap(ret[c]).ok
            /\ Done(c) => /\ response[c] # None
                          /\ Unwrap(response[c]).http = 200
                          /\ ~IsGatewayError(Unwrap(response[c]))

\* C4 happens: Health answered although one backend was unreachable and the
\* other answered 503.
C4_Witness ==
    \E c \in CallIds :
        /\ req[c].op = "health" /\ Done(c)
        /\ replies[c] = <<SendFailed, Responded(503)>>
        /\ Unwrap(response[c]).http = 200

\* C5: search, store and sendMessage build nothing from a response whose
\* status is not 2xx: on such a status the client call has returned an
\* error, and the body of the response was never read.
C5_NothingBuiltFromNon2xx ==
    \A c \in CallIds :
        (req[c].op \in IdentityOps /\ Answered(c) /\ StatusOf(c) \notin 200..299) =>
            /\ body_read[c] = None
            /\ client_result[c] # None
            /\ ~Unwrap(client_result[c]).ok
            /\ ret[c] # None /\ ~Unwrap(ret[c]).ok

\* C5 happens: a backend answered 500 and the client call returned an error
\* without reading the body.
C5_Witness ==
    \E c \in CallIds :
        /\ req[c].op \in IdentityOps /\ Answered(c) /\ StatusOf(c) = 500
        /\ client_result[c] # None /\ ~Unwrap(client_result[c]).ok
        /\ body_read[c] = None

\* C6: for search and sendMessage every response status other than 200 is
\* classified as ServiceUnavailable, never as InvalidRequest, NotFound or
\* InternalError.
C6_UnacceptedStatusIsServiceUnavailable ==
    \A c \in CallIds :
        (req[c].op \in {"fetch", "submit"} /\ Answered(c) /\ StatusOf(c) # 200) =>
            /\ ClientFailedAs(c, "ServiceUnavailable")
            /\ Unwrap(client_result[c]).err.msg[2] = ToString(StatusOf(c))

\* C6 happens: the memory backend answered a search with 404, the search
\* failed as ServiceUnavailable and the caller got 503.
C6_Witness ==
    \E c \in CallIds :
        /\ req[c].op = "fetch" /\ Answered(c) /\ StatusOf(c) = 404
        /\ ClientFailedAs(c, "ServiceUnavailable")
        /\ EndsIn(c, 503)

\* C7: for store a status of 200 or 201 passes the status check (the call
\* does not fail as ServiceUnavailable, and succeeds whenever the body is
\* JSON); any other status is ServiceUnavailable; a JSON body without a
\* string `id` yields the empty string as memory id.
C7_StoreStatusAndMissingId ==
    \A c \in CallIds :
        (req[c].op = "log" /\ Answered(c)) =>
            /\ StatusOf(c) \notin {200, 201} => ClientFailedAs(c, "ServiceUnavailable")
            /\ StatusOf(c) \in {200, 201} =>
                   /\ ~ClientFailedAs(c, "ServiceUnavailable")
                   /\ (body_read[c] # None /\ Unwrap(body_read[c]).t = "json") =>
                          /\ client_result[c] # None
                          /\ Unwrap(client_result[c]).ok
                          /\ as_str(JIndex(Unwrap(body_read[c]).v, "id")) = None =>
                                 Unwrap(client_result[c]).val = ""

\* C7 happens: the memory backend answered a store with 201 and a body
\* without `id`, and the caller got memory id "".
C7_Witness ==
    \E c \in CallIds :
        /\ req[c].op = "log" /\ Answered(c) /\ StatusOf(c) = 201
        /\ body_read[c] = Some(BodyJson(JObj(NoFields)))
        /\ client_result[c] = Some(Ok(""))
        /\ Done(c) /\ Unwrap(response[c]).body.memory_id = ""

\* The external status of each kind of GatewayError.
ExternalStatus(kind) ==
    CASE kind = "Unauthorized" -> 401
      [] kind = "InvalidRequest" -> 400
      [] kind = "NotFound" -> 404
      [] kind = "ServiceUnavailable" -> 503
      [] kind = "InternalError" -> 500

\* C8: an error of any kind, with any detail, is sent with the external
\* status of its kind, and its body is {error, status} with `status` equal
\* to the HTTP status of the response.
C8_ErrorStatusMapping ==
    \A c \in CallIds :
        (response[c] # None /\ ret[c] # None /\ ~Unwrap(ret[c]).ok) =>
            LET e == Unwrap(ret[c]).err
                r == Unwrap(response[c])
            IN /\ r.http = ExternalStatus(e.kind)
               /\ DOMAIN r.body = {"error", "status"}
               /\ r.body.status = r.http
               /\ r.body.error[2] = e.msg

\* C8 happens: a NotFound, which no handler raises, has been sent as 404.
C8_Witness ==
    \E c \in CallIds :
        /\ Done(c) /\ Unwrap(ret[c]).err.kind = "NotFound"
        /\ Unwrap(response[c]).http = 404
        /\ Unwrap(response[c]).body.status = 404

\* C9: every error response that leaves the gateway is a GatewayError that a
\* handler returned, in the {error, status} shape, also for a request body
\* that fails validation before the handler runs.
C9_OnlyGatewayErrorsLeave ==
    \A c \in CallIds :
        (response[c] # None /\ Unwrap(response[c]).http >= 400) =>
            /\ IsGatewayError(Unwrap(response[c]))
            /\ ret[c] # None /\ ~Unwrap(ret[c]).ok
            /\ Unwrap(response[c]) = error_response(Unwrap(ret[c]).err)

\* C10: the observation of a call says `error` exactly when the call ends
\* in a GatewayError response and `success` exactly when it ends in a
\* success response; Health always says `success`.
C10_OutcomeClassified ==
    \A c \in CallIds :
        \A i \in 1..Len(observed[c]) :
            /\ observed[c][i].status \in Outcomes
            /\ observed[c][i].status = "error" <=> ~Unwrap(ret[c]).ok
            /\ req[c].op = "health" => observed[c][i].status = "success"
            /\ Done(c) =>
                   /\ observed[c][i].status = "error" <=>
                          /\ IsGatewayError(Unwrap(response[c]))
                          /\ Unwrap(response[c]).http >= 400
                   /\ observed[c][i].status = "success" <=>
                          Unwrap(response[c]).http = 200

\* C10 happens: a context-fetch that ended in 503 was observed as error.
C10_Witness ==
    \E c \in CallIds :
        /\ req[c].op = "fetch" /\ EndsIn(c, 503)
        /\ observed[c] = <<Observation("/mcp/context/fetch", "error")>>

\* C11: every store request issued by memory-log carries the type
\* "code_interaction", the tier "ltm" and exactly the tags
\* [action, "vscode", "mcp"]; when the backend succeeds with id X the call
\* returns {memory_id: X, stored: true, message: "Memory X stored successfully"}.
C11_StoreRequestAndResponse ==
    \A c \in CallIds :
        req[c].op = "log" =>
            /\ \A i \in 1..Len(sent[c]) :
                   /\ sent[c][i].path = "/memory/store"
                   /\ sent[c][i].json.type = "code_interaction"
                   /\ sent[c][i].json.tier = "ltm"
                   /\ sent[c][i].json.tags = Some(<<req[c].body.v.action, "vscode", "mcp">>)
            /\ (client_result[c] # None /\ Unwrap(client_result[c]).ok) =>
                   LET X == Unwrap(client_result[c]).val IN
                   /\ ret[c] = Some(Ok(OkJson([memory_id |-> X, stored |-> TRUE,
                                  message |-> <<"Memory ", X, " stored successfully">>])))
                   /\ Done(c) => /\ Unwrap(response[c]).http = 200
                                 /\ Unwrap(response[c]).body =
                                        [memory_id |-> X, stored |-> TRUE,
                                         message |-> <<"Memory ", X, " stored successfully">>]

\* C11 happens: an "edit" was stored under the id m-1 and answered so.
C11_Witness ==
    \E c \in CallIds :
        /\ req[c].op = "log" /\ EndsIn(c, 200)
        /\ req[c].body.v.action = "edit"
        /\ sent[c][1].json.tags = Some(<<"edit", "vscode", "mcp">>)
        /\ Unwrap(response[c]).body.memory_id = "m-1"

\* C12: the endpoint observation is recorded before the response is returned:
\* a call that has a response has recorded its observation, counter and
\* duration both, and Respond is the step that produced the response; no call
\* answers first and observes later, or never.
C12_ObservedBeforeResponse ==
    \A c \in CallIds :
        response[c] # None =>
            /\ Len(observed[c]) = 1
            /\ observed[c][1].endpoint = EndpointOf(req[c].op)
            /\ obs_call[c] = None
            /\ ret[c] # None

\* C13: a handler forwards a backend client's error unchanged: whenever the
\* client call of a context-fetch, memory-log or task-submit returned the
\* error E, the handler returns exactly E, same kind and same detail, and the
\* call is answered with E's rendering, never with another kind or a success.
C13_BackendErrorForwarded ==
    \A c \in CallIds :
        (req[c].op \in IdentityOps /\ client_result[c] # None
            /\ ~Unwrap(client_result[c]).ok) =>
            LET E == Unwrap(client_result[c]).err IN
            /\ ret[c] = Some(Err(E))
            /\ Done(c) =>
                   /\ Unwrap(response[c]).http = ExternalStatus(E.kind)
                   /\ Unwrap(response[c]).body =
                          [error |-> to_string(E), status |-> ExternalStatus(E.kind)]

\* C13 happens: the intelligence backend answered a task-submit with 500 and
\* the call ended with the client's ServiceUnavailable.
C13_Witness ==
    \E c \in CallIds :
        /\ req[c].op = "submit" /\ Answered(c) /\ StatusOf(c) = 500
        /\ ClientFailedAs(c, "ServiceUnavailable")
        /\ ret[c] = Some(Err(Unwrap(client_result[c]).err))
        /\ EndsIn(c, 503)

\* C14: a transport failure of a backend call of context-fetch, memory-log or
\* task-submit is classified as ServiceUnavailable at whatever point it
\* occurs: while the request is sent, or while the body of the response is
\* awaited.
C14_TransportFailureIsServiceUnavailable ==
    \A c \in CallIds :
        req[c].op \in IdentityOps =>
            /\ (replies[c] # <<>> /\ replies[c][Len(replies[c])] = SendFailed) =>
                   ClientFailedAs(c, "ServiceUnavailable")
            /\ body_read[c] = Some(BodyLost) =>
                   ClientFailedAs(c, "ServiceUnavailable")

\* The body of the call's response does not deserialize into the shape its
\* client expects: it is no JSON, or, for the chat result, a JSON value
\* without the string fields session_id and response.
FailsToDeserialize(c) ==
    /\ body_read[c] # None
    /\ LET b == Unwrap(body_read[c]) IN
       \/ b = BodyGarbage
       \/ /\ req[c].op = "submit" /\ b.t = "json"
          /\ \/ b.v.t # "obj"
             \/ ~({"session_id", "response"} \subseteq DOMAIN b.v.v)

\* C15: for search, store and sendMessage, a response with an accepted status
\* whose body fails to deserialize into the expected shape yields
\* InternalError; no backend-response path yields InvalidRequest.
C15_BadBodyIsInternalError ==
    \A c \in CallIds :
        req[c].op \in IdentityOps =>
            /\ FailsToDeserialize(c) =>
                   /\ ClientFailedAs(c, "InternalError")
                   /\ Done(c) => Unwrap(response[c]).http = 500
            /\ ~ClientFailedAs(c, "InvalidRequest")
            /\ (ret[c] # None /\ ~Unwrap(ret[c]).ok) =>
                   Unwrap(ret[c]).err.kind # "InvalidRequest"

\* C15 happens: the intelligence backend answered 200 with a JSON object
\* that has no session_id, and the task-submit ended with InternalError / 500.
C15_Witness ==
    \E c \in CallIds :
        /\ req[c].op = "submit" /\ Answered(c) /\ StatusOf(c) = 200
        /\ FailsToDeserialize(c) /\ Unwrap(body_read[c]).t = "json"
        /\ ClientFailedAs(c, "InternalError")
        /\ EndsIn(c, 500)

\* The JSON body has a `results` field that is a list.
HasResultsList(value) ==
    /\ value.t = "obj"
    /\ "results" \in DOMAIN value.v
    /\ value.v.results.t = "arr"

\* C16: on a 200 response with a JSON body, search tells an absent or
\* non-list `results` from an empty list: the former is InternalError / 500,
\* the latter a success with no memories and the summary "No relevant context
\* found."; a list yields one memory per entry, whatever fields the entries
\* lack.
C16_ResultsAbsentOrEmpty ==
    \A c \in CallIds :
        (req[c].op = "fetch" /\ body_read[c] # None /\ Unwrap(body_read[c]).t = "json") =>
            LET value == Unwrap(body_read[c]).v IN
            IF ~HasResultsList(value)
            THEN /\ ClientFailedAs(c, "InternalError")
                 /\ ret[c] = Some(Err(Unwrap(client_result[c]).err))
                 /\ Done(c) => Unwrap(response[c]).http = 500
            ELSE LET n == Len(value.v.results.v)
                     answer == Unwrap(ret[c]).val IN
                 /\ client_result[c] # None /\ Unwrap(client_result[c]).ok
                 /\ Len(Unwrap(client_result[c]).val) = n
                 /\ Unwrap(ret[c]).ok
                 /\ answer.http = 200
                 /\ Len(answer.body.memories) = n
                 /\ (n = 0) <=> (answer.body.context_summary = <<"No relevant context found.">>)
                 /\ Done(c) => Unwrap(response[c]) = answer

\* C16 happens: the backend answered 200 with an empty `results` list and the
\* context-fetch ended in 200 with no memories and the no-context summary.
C16_Witness ==
    \E c \in CallIds :
        /\ req[c].op = "fetch" /\ EndsIn(c, 200)
        /\ body_read[c] = Some(BodyJson(JObj([results |-> JArr(<<>>)])))
        /\ Unwrap(response[c]).body.memories = <<>>
        /\ Unwrap(response[c]).body.context_summary = <<"No relevant context found.">>

(***************************************************************************)
(* extract_user_id over every request: an upstream layer may have put an   *)
(* identity into the request's extensions, and any of the headers may be    *)
(* there.  Each call is at the start of its handler.                        *)
(***************************************************************************)
AnyHeaders ==
    {Headers(e, x, a) :
        e \in {None, Some("ctx-user")},
        x \in {None, Some(HeaderText("u1")), Some(HeaderText("u2")), Some(HeaderBytes)},
        a \in {None, Some(HeaderText("Bearer tok"))}}

IdentityRequests ==
    {Request(op, h, b) : op \in {"fetch", "log", "submit"}, h \in AnyHeaders,
                         b \in UNION {BodiesOf(o) \ {Malformed} : o \in {"fetch", "log", "submit"}}}

InitIdentity ==
    /\ pc = [c \in CallIds |-> "handler"]
    /\ req \in [CallIds -> {r \in IdentityRequests : r.body \in BodiesOf(r.op)}]
    /\ user_id = [c \in CallIds |-> None]
    /\ sent = [c \in CallIds |-> <<>>]
    /\ replies = [c \in CallIds |-> <<>>]
    /\ body_read = [c \in CallIds |-> None]
    /\ probes = [c \in CallIds |-> <<>>]
    /\ client_result = [c \in CallIds |-> None]
    /\ ret = [c \in CallIds |-> None]
    /\ obs_call = [c \in CallIds |-> None]
    /\ observed = [c \in CallIds |-> <<>>]
    /\ response = [c \in CallIds |-> None]
    /\ MCP_REQUESTS_TOTAL = [k \in Endpoints \X Outcomes |-> 0]
    /\ MCP_REQUEST_DURATION_SECONDS = [e \in Endpoints |-> 0]

NextIdentity ==
    \E c \in CallIds :
        \/ fetch_context_start(c)
        \/ log_memory_start(c)
        \/ submit_task_start(c)

SpecIdentity == InitIdentity /\ [][NextIdentity]_vars

\* The handler of call c went on with this resolution of the identity:
\* with Some(id) it took id as the user and sent it to the backend, with None
\* it returned Unauthorized and sent nothing.
ResolvedAs(c, identity) ==
    IF identity # None
    THEN /\ user_id[c] = identity
         /\ Len(sent[c]) = 1 /\ sent[c][1].x_user_id = identity
    ELSE /\ user_id[c] = None /\ sent[c] = <<>>
         /\ ret[c] # None /\ ~Unwrap(ret[c]).ok
         /\ Unwrap(ret[c]).err.kind = "Unauthorized"

RequestsTo(c, backend) == {i \in 1..Len(sent[c]) : sent[c][i].backend = backend}

\* C18: no retries.  A context-fetch, memory-log or task-submit issues at most
\* one backend request, exactly one once its identity is resolved, and none
\* more when that request fails; a health call issues one probe to each
\* backend, no more, and has issued both when it ends.
C18_NoRetries ==
    \A c \in CallIds :
        /\ Len(replies[c]) <= Len(sent[c])
        /\ req[c].op \in IdentityOps =>
               /\ Len(sent[c]) <= 1
               /\ (user_id[c] # None) <=> (Len(sent[c]) = 1)
               /\ Done(c) /\ user_id[c] # None => Len(replies[c]) = 1
        /\ req[c].op = "health" =>
               /\ Cardinality(RequestsTo(c, "memory")) <= 1
               /\ Cardinality(RequestsTo(c, "intelligence")) <= 1
               /\ Len(sent[c]) <= 2
               /\ Done(c) => /\ Cardinality(RequestsTo(c, "memory")) = 1
                             /\ Cardinality(RequestsTo(c, "intelligence")) = 1
                             /\ Len(replies[c]) = 2

\* C18 happens: a context-fetch whose one request could not be sent ended in
\* 503 with that one request.
C18_Witness ==
    \E c \in CallIds :
        /\ req[c].op = "fetch" /\ EndsIn(c, 503)
        /\ replies[c] = <<SendFailed>>
        /\ Len(sent[c]) = 1

(***************************************************************************)
(* Calls handled at the same time.  main.rs runs each inbound call as a     *)
(* task of its own, and the tasks share the two clients and the metrics.    *)
(* MaxTasks calls are in flight together and their steps interleave in any  *)
(* order.                                                                   *)
(***************************************************************************)
TaskIds == 1..MaxTasks

\* A request of each operation, with an identity where the operation takes one.
ARequest(op) ==
    Request(op, Headers(None, IF op = "health" THEN None ELSE Some(HeaderText("u1")), None),
            CHOOSE b \in BodiesOf(op) : b # Malformed)

\* The observe_request calls of the handlers: health_check makes the one with
\* "success", the other handlers one with "success" and some with "error".
ObservationsMade ==
    {Observation(EndpointOf(op), status) :
        op \in Operations, status \in Outcomes} \ {Observation("/mcp/health", "error")}

\* Every task is about to call observe_request, for any operation and outcome.
InitMetrics ==
    /\ pc = [t \in TaskIds |-> "observe"]
    /\ obs_call \in [TaskIds -> {Some(o) : o \in ObservationsMade}]
    /\ req = [t \in TaskIds |->
                 ARequest(CHOOSE op \in Operations :
                              EndpointOf(op) = Unwrap(obs_call[t]).endpoint)]
    /\ user_id = [t \in TaskIds |-> None]
    /\ sent = [t \in TaskIds |-> <<>>]
    /\ replies = [t \in TaskIds |-> <<>>]
    /\ body_read = [t \in TaskIds |-> None]
    /\ probes = [t \in TaskIds |-> <<>>]
    /\ client_result = [t \in TaskIds |-> None]
    /\ ret = [t \in TaskIds |-> None]
    /\ observed = [t \in TaskIds |-> <<>>]
    /\ response = [t \in TaskIds |-> None]
    /\ MCP_REQUESTS_TOTAL = [k \in Endpoints \X Outcomes |-> 0]
    /\ MCP_REQUEST_DURATION_SECONDS = [e \in Endpoints |-> 0]

NextMetrics ==
    \E t \in TaskIds :
        \/ observe_request_inc(t)
        \/ observe_request_duration(t)

SpecMetrics == InitMetrics /\ [][NextMetrics]_vars

\* The tasks that handle a call to this endpoint; those whose counter
\* increment is over; those whose observe_request is over.
CallsTo(endpoint) == {t \in TaskIds : EndpointOf(req[t].op) = endpoint}
Counted(endpoint) == {t \in CallsTo(endpoint) : pc[t] # "observe"}
Completed(endpoint) == {t \in CallsTo(endpoint) : pc[t] = "respond"}
CounterSum(endpoint) ==
    MCP_REQUESTS_TOTAL[<<endpoint, "success">>] + MCP_REQUESTS_TOTAL[<<endpoint, "error">>]

\* C19: the metrics lose no update under concurrency.  At every point of every
\* interleaving of the calls handled at the same time, the counters of an
\* endpoint, summed over the outcomes, have grown by the number of its calls
\* that have counted, each under its own outcome, and its histogram has one
\* sample per call whose observation is over; so once the N calls to an
\* endpoint have completed, the sum has grown by exactly N and the histogram
\* has exactly N samples.
C19_NoLostUpdate ==
    \A e \in Endpoints :
        /\ CounterSum(e) = Cardinality(Counted(e))
        /\ \A o \in Outcomes :
               MCP_REQUESTS_TOTAL[<<e, o>>] =
                   Cardinality({t \in Counted(e) : observed[t] = <<Observation(e, o)>>})
        /\ MCP_REQUEST_DURATION_SECONDS[e] = Cardinality(Completed(e))
        /\ (\A t \in CallsTo(e) : pc[t] = "respond") =>
               /\ CounterSum(e) = Cardinality(CallsTo(e))
               /\ MCP_REQUEST_DURATION_SECONDS[e] = Cardinality(CallsTo(e))

\* C19 happens: all the tasks handled a context-fetch with the same outcome
\* at the same time, more than one of them, and all are counted and sampled.
C19_Witness ==
    /\ MaxTasks >= 2
    /\ CallsTo("/mcp/context/fetch") = TaskIds
    /\ \A t \in TaskIds : pc[t] = "respond" /\ observed[t] = <<Observation("/mcp/context/fetch", "error")>>
    /\ MCP_REQUESTS_TOTAL[<<"/mcp/context/fetch", "error">>] = MaxTasks
    /\ MCP_REQUEST_DURATION_SECONDS["/mcp/context/fetch"] = MaxTasks

\* The callers of the calls handled at the same time.
SharedIdentities == {"u1", "u2"}

\* Every task is at the start of the handler of a context-fetch, memory-log or
\* task-submit; the calls come from any of the callers.
InitShared ==
    /\ pc = [t \in TaskIds |-> "handler"]
    /\ req \in [TaskIds ->
                   {Request(op, Headers(None, Some(HeaderText(u)), None), ARequest(op).body) :
                        op \in {"fetch", "log", "submit"}, u \in SharedIdentities}]
    /\ user_id = [t \in TaskIds |-> None]
    /\ sent = [t \in TaskIds |-> <<>>]
    /\ replies = [t \in TaskIds |-> <<>>]
    /\ body_read = [t \in TaskIds |-> None]
    /\ probes = [t \in TaskIds |-> <<>>]
    /\ client_result = [t \in TaskIds |-> None]
    /\ ret = [t \in TaskIds |-> None]
    /\ obs_call = [t \in TaskIds |-> None]
    /\ observed = [t \in TaskIds |-> <<>>]
    /\ response = [t \in TaskIds |-> None]
    /\ MCP_REQUESTS_TOTAL = [k \in Endpoints \X Outcomes |-> 0]
    /\ MCP_REQUEST_DURATION_SECONDS = [e \in Endpoints |-> 0]

\* The steps of the handlers through the shared clients, of any task at any
\* time.
NextShared ==
    \E t \in TaskIds :
        \/ fetch_context_start(t)
        \/ fetch_context_sent(t)
        \/ fetch_context_body(t)
        \/ log_memory_start(t)
        \/ log_memory_sent(t)
        \/ log_memory_body(t)
        \/ submit_task_start(t)
        \/ submit_task_sent(t)
        \/ submit_task_body(t)

SpecShared == InitShared /\ [][NextShared]_vars

\* What the client of task t makes of the reply and the body that task t
\* itself received.
OwnClientResult(t) ==
    LET reply == replies[t][Len(replies[t])]
        body == Unwrap(body_read[t])
    IN CASE req[t].op = "fetch" ->
                IF search_memories_status(reply) # None
                THEN Unwrap(search_memories_status(reply)) ELSE search_memories_body(body)
         [] req[t].op = "log" ->
                IF store_memory_status(reply) # None
                THEN Unwrap(store_memory_status(reply)) ELSE store_memory_body(body)
         [] req[t].op = "submit" ->
                IF send_message_status(reply) # None
                THEN Unwrap(send_message_status(reply)) ELSE send_message_body(body)

\* What the handler of task t returns for this result of its client.
OwnAnswer(t, result) ==
    CASE req[t].op = "fetch" -> fetch_context_finish(req[t].body.v, result).ret
      [] req[t].op = "log" -> log_memory_finish(req[t].body.v, result).ret
      [] req[t].op = "submit" -> submit_task_finish(req[t].body.v, result).ret

\* C20: the clients are shared by the calls handled at the same time.  Under
\* any interleaving, every request sent for a call carries the identity of
\* that call's own X-User-Id, and every call's result is made of the reply
\* and the body its own request received, whatever the other calls sent and
\* received meanwhile.
C20_OwnIdentityOwnResponse ==
    \A t \in TaskIds :
        /\ \A i \in 1..Len(sent[t]) :
               /\ sent[t][i].x_user_id = Some(Unwrap(req[t].x_user_id).text)
               /\ sent[t][i].x_user_id = user_id[t]
        /\ client_result[t] # None =>
               /\ Len(sent[t]) = 1 /\ Len(replies[t]) = 1
               /\ client_result[t] = Some(OwnClientResult(t))
               /\ ret[t] = Some(OwnAnswer(t, OwnClientResult(t)))

\* C20 happens: two context-fetches of different callers went through the
\* memory client at the same time, each with its own identity; one got its
\* memories and the other a 503 of the backend.
C20_Witness ==
    \E t, u \in TaskIds :
        /\ req[t].op = "fetch" /\ req[u].op = "fetch"
        /\ sent[t] # <<>> /\ sent[t][1].x_user_id = Some("u1")
        /\ sent[u] # <<>> /\ sent[u][1].x_user_id = Some("u2")
        /\ client_result[t] # None /\ Unwrap(client_result[t]).ok
        /\ Len(Unwrap(client_result[t]).val) = 1
        /\ ClientFailedAs(u, "ServiceUnavailable") /\ StatusOf(u) = 503
        /\ Unwrap(ret[t]).ok /\ ~Unwrap(ret[u]).ok

(***************************************************************************)
(* Progress.  The runtime polls every task that can run, so the steps a     *)
(* call takes on its own are taken: the extraction of the arguments, the    *)
(* handler up to its await, observe_request, the response.  The end of an   *)
(* await on a backend is the backend's and the transport's: the clients are *)
(* built with Client::new(), which sets no timeout, and nothing bounds the  *)
(* wait for the status line or for the body.                                *)
(***************************************************************************)
LocalStep(c) ==
    \/ Dispatch(c)
    \/ health_check_start(c)
    \/ fetch_context_start(c)
    \/ log_memory_start(c)
    \/ submit_task_start(c)
    \/ observe_request_inc(c)
    \/ observe_request_duration(c)
    \/ Respond(c)

\* The end of an await on a backend: `send().await` or `json().await` is over.
BackendStep(c) ==
    \/ health_check_memory(c)
    \/ health_check_intelligence(c)
    \/ fetch_context_sent(c)
    \/ fetch_context_body(c)
    \/ log_memory_sent(c)
    \/ log_memory_body(c)
    \/ submit_task_sent(c)
    \/ submit_task_body(c)

\* The calls whose progress is followed: of every operation, with and without
\* an identity, with a body that deserializes and with one that does not.
LiveRequests ==
    {Request(op, h, b) :
        op \in Operations,
        h \in {Headers(None, None, None), Headers(None, Some(HeaderText("u1")), None)},
        b \in UNION {{Malformed, ARequest(o).body} : o \in Operations}}

\* Every call has arrived and has started.
InitLive ==
    /\ pc = [c \in CallIds |-> "received"]
    /\ req \in [CallIds -> {r \in LiveRequests : /\ r.body \in BodiesOf(r.op)
                                                /\ Headers(r.extensions, r.x_user_id,
                                                           r.authorization) \in HeadersOf(r.op)}]
    /\ user_id = [c \in CallIds |-> None]
    /\ sent = [c \in CallIds |-> <<>>]
    /\ replies = [c \in CallIds |-> <<>>]
    /\ body_read = [c \in CallIds |-> None]
    /\ probes = [c \in CallIds |-> <<>>]
    /\ client_result = [c \in CallIds |-> None]
    /\ ret = [c \in CallIds |-> None]
    /\ obs_call = [c \in CallIds |-> None]
    /\ observed = [c \in CallIds |-> <<>>]
    /\ response = [c \in CallIds |-> None]
    /\ MCP_REQUESTS_TOTAL = [k \in Endpoints \X Outcomes |-> 0]
    /\ MCP_REQUEST_DURATION_SECONDS = [e \in Endpoints |-> 0]

NextLive == \E c \in CallIds : LocalStep(c) \/ BackendStep(c)

SpecLive == InitLive /\ [][NextLive]_vars /\ \A c \in CallIds : WF_vars(LocalStep(c))

\* C21 as stated: a call that has started always eventually responds.
C21_AlwaysResponds == \A c \in CallIds : Started(c) ~> Done(c)

\* C21: a call that has started always eventually responds, provided each
\* of its awaits on a backend comes to an end, with a response or with a
\* failure of the transport.
C21_RespondsIfBackendAnswers ==
    \A c \in CallIds : WF_vars(BackendStep(c)) => (Started(c) ~> Done(c))

\* C21 happens: a task-submit that waited for the intelligence backend's
\* status and body was observed and answered.
C21_Witness ==
    \E c \in CallIds :
        /\ req[c].op = "submit" /\ Done(c)
        /\ Len(replies[c]) = 1 /\ body_read[c] # None
        /\ Len(observed[c]) = 1 /\ response[c] # None

\* The backend an operation works with.
BackendOf(op) == IF op = "submit" THEN "intelligence" ELSE "memory"

\* C22: failures are isolated between the two backends.  A context-fetch and
\* a memory-log send nothing to the intelligence backend, a task-submit
\* nothing to the memory backend, and what each returns is made of its own
\* request and of the reply and body of its one request to its own backend,
\* or of the request alone when it was rejected: the other backend, up or
\* down, has no part in it.  Health asks both, and reports each.
C22_BackendsIsolated ==
    \A c \in CallIds :
        /\ req[c].op \in IdentityOps =>
               /\ \A i \in 1..Len(sent[c]) : sent[c][i].backend = BackendOf(req[c].op)
               /\ Len(replies[c]) <= Len(sent[c])
               /\ ret[c] # None =>
                      IF sent[c] = <<>>
                      THEN /\ client_result[c] = None
                           /\ ~Unwrap(ret[c]).ok
                           /\ Unwrap(ret[c]).err.kind = "Unauthorized"
                      ELSE /\ Len(sent[c]) = 1 /\ Len(replies[c]) = 1
                           /\ ret[c] = Some(OwnAnswer(c, OwnClientResult(c)))
               /\ (Done(c) /\ ret[c] # None) =>
                      Unwrap(response[c]) =
                          IF Unwrap(ret[c]).ok THEN Unwrap(ret[c]).val
                          ELSE error_response(Unwrap(ret[c]).err)
        /\ (req[c].op = "health" /\ Done(c)) =>
               /\ Len(sent[c]) = 2
               /\ sent[c][1].backend = "memory" /\ sent[c][2].backend = "intelligence"
               /\ Unwrap(response[c]).body.memory_service =
                      (replies[c][1] # SendFailed /\ is_success(replies[c][1].status))
               /\ Unwrap(response[c]).body.intelligence_service =
                      (replies[c][2] # SendFailed /\ is_success(replies[c][2].status))

\* C22 happens: a memory-log ended in 200 having sent its one request to the
\* memory backend and none to the intelligence backend.
C22_Witness ==
    \E c \in CallIds :
        /\ req[c].op = "log" /\ EndsIn(c, 200)
        /\ Len(sent[c]) = 1 /\ sent[c][1].backend = "memory"
        /\ RequestsTo(c, "intelligence") = {}

\* The tasks that are inside observe_request for this endpoint: the counter
\* is incremented, the histogram not yet.
InProgress(endpoint) == {t \in CallsTo(endpoint) : pc[t] = "observe_duration"}

\* C23: in every state and for every endpoint, the histogram has no more
\* samples than the endpoint's counters sum to, and as many whenever no
\* observe_request call is in progress for the endpoint; from one state to
\* the next no counter and no histogram decreases.
C23_HistogramWithinCounters ==
    /\ [](\A e \in Endpoints :
            /\ MCP_REQUEST_DURATION_SECONDS[e] <= CounterSum(e)
            /\ CounterSum(e) - MCP_REQUEST_DURATION_SECONDS[e] = Cardinality(InProgress(e))
            /\ InProgress(e) = {} => MCP_REQUEST_DURATION_SECONDS[e] = CounterSum(e))
    /\ [][/\ \A k \in Endpoints \X Outcomes : MCP_REQUESTS_TOTAL'[k] >= MCP_REQUESTS_TOTAL[k]
          /\ \A e \in Endpoints :
                 MCP_REQUEST_DURATION_SECONDS'[e] >= MCP_REQUEST_DURATION_SECONDS[e]]_vars

\* C23 happens: one task-submit is counted and sampled while another is
\* counted and not yet sampled.
C23_Witness ==
    /\ MCP_REQUEST_DURATION_SECONDS["/mcp/task/submit"] = 1
    /\ CounterSum("/mcp/task/submit") = 2
    /\ Cardinality(InProgress("/mcp/task/submit")) = 1
====
